---- MODULE Spec2Model ----
(***************************************************************************)
(* The credit-gated generation route (index), the promo redemption route   *)
(* (redeem_code) and the promo administration routes (create_promo,        *)
(* toggle_promo) of app.py, as concurrent request handlers over one        *)
(* database, and the listing validator (validate_and_fix_listing) as a     *)
(* function on token texts.                                                *)
(*                                                                         *)
(* The database holds the committed rows.  Every request handler works in  *)
(* its own ORM session: an attribute of a row object that the session has  *)
(* already loaded is served from the session's copy until a commit or a    *)
(* rollback expires it, also when a later query of the same session        *)
(* returns that row again.  A flush writes the values the handler computed *)
(* in Python from its copy (UPDATE ... SET credits = <value>), and a       *)
(* commit makes them visible at once.  SELECT ... FOR UPDATE and UPDATE    *)
(* take the row's lock until the transaction ends.                         *)
(***************************************************************************)
EXTENDS Integers, Sequences, FiniteSets, TLC

\* ---------------------------------------------------------------- bounds
NumWorkers      == 2    \* request handlers that can run at the same time
MaxRequests     == 2    \* requests served in one behaviour
MaxInitCredits  == 1    \* largest balance of an account in the initial state
MaxPromoCredits == 1    \* largest credits value of a promo code
MaxMaxUses      == 1    \* largest max_uses of a promo code
MaxRawLen       == 4    \* longest raw listing text, in tokens

\* ------------------------------------------------------- program constants
MAX_IMAGES == 5

Workers == 1 .. NumWorkers
Users   == {"u1", "u2"}

\* A promo code is a string of characters; SAVE5 is the code the
\* administrator creates.
SAVE5 == <<"S", "A", "V", "E", "5">>
Codes == {SAVE5}

\* What a client types into the promo_code and code form fields.
CodeForms ==
    { SAVE5,
      <<" ", "s", "a", "v", "e", "5", " ">>,
      <<"N", "O", "P", "E">> }

\* User.is_admin: u2 is the administrative (exempt) account.
is_admin == [u \in Users |-> u = "u2"]

\* PromoCode.max_uses is nullable: <<>> is None, <<n>> is the integer n.
None == <<>>
MaxUsesValues == {None} \cup {<<n>> : n \in 0 .. MaxMaxUses}

\* Python truthiness of promo.max_uses: None and 0 are false.
Truthy(m) == m # None /\ m[1] # 0

\* The numbers of uploaded files a POST can carry.
ImageCounts == {0, 1, MAX_IMAGES, MAX_IMAGES + 1}

NoPromo == [present |-> FALSE, credits |-> 0, is_active |-> FALSE,
            max_uses |-> None, uses_count |-> 0]

NoCopy == [credits |-> 0, is_generating |-> FALSE]

VARIABLES
    credits,        \* User.credits, committed
    is_generating,  \* User.is_generating, committed
    rowlock,        \* the worker holding the lock of a user row, 0 when free
    promo_code,     \* the PromoCode row of each code
    redemptions,    \* the number of PromoRedemption rows per (user, code)
    generations,    \* the Generation rows, in insertion order
    pc,             \* where each handler is
    uid,            \* current_user.id of the request
    code,           \* the normalized promo_code of a redeem request
    user,           \* the session's copy of the User row
    promo,          \* the session's copy of the PromoCode row
    fallback_used,  \* what generate_listing returned
    result,         \* what the handler answers
    started,        \* requests served so far
    began,          \* history: the handler's begin step was committed
    invocation,     \* history: how generate_listing ended for the handler
    before,         \* history: committed credits when the attempt began
    after,          \* history: committed credits when the attempt released
    disturbed,      \* history: another handler changed the balance during the request
    initial,        \* history: credits in the initial state
    debits,         \* history: debits committed per user
    refunds,        \* history: refunds committed per user
    granted,        \* history: promo credits committed per user
    raw_output,     \* the text handed to validate_and_fix_listing
    validated       \* what validate_and_fix_listing returned for it

db    == <<credits, is_generating, rowlock, promo_code, redemptions, generations>>
local == <<pc, uid, code, user, promo, fallback_used, result, started>>
hist  == <<began, invocation, before, after, disturbed, initial, debits, refunds, granted>>
val   == <<raw_output, validated>>
vars  == <<db, local, hist, val>>

\* The rows after db.create_all() and the registration of the two accounts,
\* with every handler idle.
Installed ==
    /\ credits \in [Users -> 0 .. MaxInitCredits]
    /\ is_generating = [u \in Users |-> FALSE]
    /\ rowlock = [u \in Users |-> 0]
    /\ promo_code = [c \in Codes |-> NoPromo]
    /\ redemptions = [u \in Users |-> [c \in Codes |-> 0]]
    /\ generations = <<>>
    /\ pc = [w \in Workers |-> "idle"]
    /\ uid = [w \in Workers |-> "u1"]
    /\ code = [w \in Workers |-> <<>>]
    /\ user = [w \in Workers |-> NoCopy]
    /\ promo = [w \in Workers |-> NoPromo]
    /\ fallback_used = [w \in Workers |-> FALSE]
    /\ result = [w \in Workers |-> "none"]
    /\ started = 0
    /\ began = [w \in Workers |-> FALSE]
    /\ invocation = [w \in Workers |-> "none"]
    /\ before = [w \in Workers |-> 0]
    /\ after = [w \in Workers |-> 0]
    /\ disturbed = [w \in Workers |-> FALSE]
    /\ initial = credits
    /\ debits = [u \in Users |-> 0]
    /\ refunds = [u \in Users |-> 0]
    /\ granted = [u \in Users |-> 0]

Init ==
    /\ Installed
    /\ raw_output = <<>>
    /\ validated = <<>>

\* ------------------------------------------------------------- helpers

\* The committed User row as a query reads it.
UserRow(u) == [credits |-> credits[u], is_generating |-> is_generating[u]]

\* A handler between the commit of its begin step and its release.
InAttempt(w) == began[w] /\ pc[w] # "teardown"

\* A row lock another transaction holds blocks a FOR UPDATE or an UPDATE.
LockFree(w, u) == rowlock[u] \in {0, w}

\* A handler that has loaded its user and has not yet answered.
Active(w) == pc[w] \notin {"idle", "teardown"}

\* History: the requests on u under way when w changes u's balance.
Disturb(w, u, newcredits) ==
    [x \in Workers |->
        IF x # w /\ uid[x] = u /\ Active(x) /\ newcredits # credits[u]
        THEN TRUE ELSE disturbed[x]]

Release(w) == [u \in Users |-> IF rowlock[u] = w THEN 0 ELSE rowlock[u]]

\* ------------------------------------------------ validate_and_fix_listing

\* A text is a sequence of tokens: a label, a character that is not white
\* space ("x"), a blank or a newline.  None and the empty string, which
\* `not raw_output` does not tell apart, are both <<>>.
Tokens == {"Title:", "Brand:", "Condition:", "x", " ", "\n"}

RawOutputs == UNION {[1 .. n -> Tokens] : n \in 0 .. MaxRawLen}

\* The characters \s matches and str.strip() removes.
IsSpace(t) == t \in {" ", "\n"}

RECURSIVE lstrip(_)
lstrip(s) == IF s # <<>> /\ IsSpace(Head(s)) THEN lstrip(Tail(s)) ELSE s

RECURSIVE rstrip(_)
rstrip(s) ==
    IF s # <<>> /\ IsSpace(s[Len(s)]) THEN rstrip(SubSeq(s, 1, Len(s) - 1)) ELSE s

strip(s) == rstrip(lstrip(s))

\* str.upper(), character by character.
upper(s) ==
    [i \in 1 .. Len(s) |->
        CASE s[i] = "s" -> "S"
          [] s[i] = "a" -> "A"
          [] s[i] = "v" -> "V"
          [] s[i] = "e" -> "E"
          [] OTHER -> s[i]]

\* re.search(key, s): the position of the first occurrence of key, 0 when
\* there is none.
Search(key, s) ==
    IF \E i \in 1 .. Len(s) : s[i] = key
    THEN CHOOSE i \in 1 .. Len(s) :
            s[i] = key /\ \A j \in 1 .. i - 1 : s[j] # key
    ELSE 0

\* What (.*) matches at the start of s: "." does not match a newline.
RECURSIVE DotStar(_)
DotStar(s) ==
    IF s = <<>> \/ Head(s) = "\n" THEN <<>> ELSE <<Head(s)>> \o DotStar(Tail(s))

\* match.group(1) of re.search(rf"{key}\s*(.*)", s) for a key that occurs in
\* s: \s* is greedy and takes blanks and newlines alike.
Group1(key, s) == DotStar(lstrip(SubSeq(s, Search(key, s) + 1, Len(s))))

\* sections[key] after the loop: "" when the key does not occur.
Section(key, s) ==
    IF Search(key, s) = 0 THEN <<>> ELSE strip(Group1(key, s))

\* re.split(r"Condition:.*?\n", s, maxsplit=1): the position of the newline
\* that ends the first Condition line, 0 when the pattern does not match.
SplitAt(s) ==
    LET i == Search("Condition:", s) IN
    IF i # 0 /\ \E j \in i + 1 .. Len(s) : s[j] = "\n"
    THEN CHOOSE j \in i + 1 .. Len(s) :
            s[j] = "\n" /\ \A k \in i + 1 .. j - 1 : s[k] # "\n"
    ELSE 0

\* The pair (listing, fallback_used) the function returns.
validate_and_fix_listing(s) ==
    IF s = <<>>
    THEN <<(<<"Error generating full listing.">>), TRUE>>
    ELSE
    LET found == Section("Title:", s)
        title == IF found = <<>> THEN <<"Clothing Item">> ELSE found
        condition == Section("Condition:", s)
        flaws == IF Search("Flaws:", s) = 0 THEN <<>>
                 ELSE <<"Flaws:", " ">> \o strip(Group1("Flaws:", s)) \o <<"\n">>
        description == IF SplitAt(s) = 0 THEN <<>>
                       ELSE <<"\n">> \o strip(SubSeq(s, SplitAt(s) + 1, Len(s)))
        rebuilt == <<"Title:", " ">> \o title \o <<"\n", "\n">>
                   \o <<"Brand:", " ">> \o Section("Brand:", s) \o <<"\n">>
                   \o <<"Size:", " ">> \o Section("Size:", s) \o <<"\n">>
                   \o <<"Condition:", " ">> \o condition \o <<"\n">>
                   \o flaws \o description
    IN <<strip(rebuilt), found = <<>> \/ condition = <<>>>>

\* The call of line 231 on its own, for a text of the bounded set.
validate ==
    /\ validated = <<>>
    /\ validated' = validate_and_fix_listing(raw_output)
    /\ UNCHANGED <<db, local, hist, raw_output>>

\* ------------------------------------------------- login_required / load_user

\* A request arrives: login_required resolves current_user through load_user,
\* which loads the User row into the request's session.  The server hands the
\* request to its first free handler.
load_user(w) ==
    /\ pc[w] = "idle"
    /\ \A x \in Workers : x < w => pc[x] # "idle"
    /\ started < MaxRequests
    /\ started' = started + 1
    /\ \E u \in Users :
        /\ uid' = [uid EXCEPT ![w] = u]
        /\ user' = [user EXCEPT ![w] = UserRow(u)]
        /\ \/ /\ pc' = [pc EXCEPT ![w] = "index_468"]
              /\ code' = code
           \/ \E form \in CodeForms :
                /\ pc' = [pc EXCEPT ![w] = "redeem_376"]
                /\ code' = [code EXCEPT ![w] = upper(strip(form))]
    /\ UNCHANGED <<val, db, promo, fallback_used, result, hist>>

\* The request ends: the session is removed, which rolls back what is open
\* and releases the row locks it holds.
teardown(w) ==
    /\ pc[w] = "teardown"
    /\ pc' = [pc EXCEPT ![w] = "idle"]
    /\ rowlock' = Release(w)
    /\ uid' = [uid EXCEPT ![w] = "u1"]
    /\ code' = [code EXCEPT ![w] = <<>>]
    /\ user' = [user EXCEPT ![w] = NoCopy]
    /\ promo' = [promo EXCEPT ![w] = NoPromo]
    /\ fallback_used' = [fallback_used EXCEPT ![w] = FALSE]
    /\ result' = [result EXCEPT ![w] = "none"]
    /\ began' = [began EXCEPT ![w] = FALSE]
    /\ invocation' = [invocation EXCEPT ![w] = "none"]
    /\ before' = [before EXCEPT ![w] = 0]
    /\ after' = [after EXCEPT ![w] = 0]
    /\ disturbed' = [disturbed EXCEPT ![w] = FALSE]
    /\ UNCHANGED <<val, credits, is_generating, promo_code, redemptions, generations,
                   started, initial, debits, refunds, granted>>

\* --------------------------------------------------------------- index (POST)

\* if user.is_generating
AlreadyInProgress(w) == user[w].is_generating

InsufficientCredits_negative(w) == ~is_admin[uid[w]] /\ user[w].credits < 0

InsufficientCredits_everyone(w) == user[w].credits <= 0

\* if not user.is_admin and user.credits <= 0
InsufficientCredits(w) == ~is_admin[uid[w]] /\ user[w].credits <= 0

BeginAnswer_credits_first(w, n) ==
    IF InsufficientCredits(w) THEN "You have no credits remaining."
    ELSE IF AlreadyInProgress(w) THEN "Generation already in progress."
    ELSE IF n = 0 THEN "Please upload at least one image."
    ELSE IF n > MAX_IMAGES THEN "Maximum 5 images allowed."
    ELSE "ok"

\* The answer to the checks of lines 470-482 for n uploaded files.
BeginAnswer(w, n) ==
    IF AlreadyInProgress(w) THEN "Generation already in progress."
    ELSE IF InsufficientCredits(w) THEN "You have no credits remaining."
    ELSE IF n = 0 THEN "Please upload at least one image."
    ELSE IF n > MAX_IMAGES THEN "Maximum 5 images allowed."
    ELSE "ok"

index_468_releases(w) ==
    /\ pc[w] = "index_468"
    /\ rowlock[uid[w]] = 0
    /\ rowlock' = [rowlock EXCEPT ![uid[w]] = w]
    /\ \E n \in ImageCounts :
        IF BeginAnswer(w, n) = "ok"
        THEN /\ pc' = [pc EXCEPT ![w] = "index_485"]
             /\ result' = result
             /\ is_generating' = is_generating
        ELSE /\ pc' = [pc EXCEPT ![w] = "teardown"]
             /\ result' = [result EXCEPT ![w] = BeginAnswer(w, n)]
             /\ is_generating' = [is_generating EXCEPT ![uid[w]] = FALSE]
    /\ UNCHANGED <<val, credits, promo_code, redemptions, generations,
                   uid, code, user, promo, fallback_used, started, hist>>

\* SELECT ... FOR UPDATE of the user row, then the checks.  The row object is
\* already in the session (load_user), so the checks read the session's copy.
\* An early return leaves the lock to the end of the request.
index_468(w) ==
    /\ pc[w] = "index_468"
    /\ rowlock[uid[w]] = 0
    /\ rowlock' = [rowlock EXCEPT ![uid[w]] = w]
    /\ \E n \in ImageCounts :
        IF BeginAnswer(w, n) = "ok"
        THEN /\ pc' = [pc EXCEPT ![w] = "index_485"]
             /\ result' = result
        ELSE /\ pc' = [pc EXCEPT ![w] = "teardown"]
             /\ result' = [result EXCEPT ![w] = BeginAnswer(w, n)]
    /\ UNCHANGED <<val, credits, is_generating, promo_code, redemptions, generations,
                   uid, code, user, promo, fallback_used, started, hist>>

\* user.is_generating = True; user.credits -= 1 unless admin; commit.
index_485(w) ==
    LET u == uid[w]
        c == IF is_admin[u] THEN credits[u] ELSE user[w].credits - 1
    IN
    /\ pc[w] = "index_485"
    /\ credits' = [credits EXCEPT ![u] = c]
    /\ is_generating' = [is_generating EXCEPT ![u] = TRUE]
    /\ rowlock' = Release(w)
    /\ pc' = [pc EXCEPT ![w] = "index_492"]
    /\ began' = [began EXCEPT ![w] = TRUE]
    /\ before' = [before EXCEPT ![w] = credits[u]]
    /\ disturbed' = Disturb(w, u, c)
    /\ debits' = [debits EXCEPT ![u] = @ + (IF is_admin[u] THEN 0 ELSE 1)]
    /\ UNCHANGED <<val, promo_code, redemptions, generations, uid, code, user, promo,
                   fallback_used, result, started, invocation, after, initial,
                   refunds, granted>>

\* response.choices[0].message.content: what the external service answers.
Responses ==
    { <<>>,
      <<"Title:", " ", "x">>,
      <<"Condition:", " ", "x">>,
      <<"Title:", " ", "x", "\n", "\n", "Brand:", " ", "x", "\n",
        "Condition:", " ", "x">> }

\* generate_listing(images): the external call raises, or it answers a text
\* and validate_and_fix_listing tells whether the listing was repaired.
generate_listing(w) ==
    /\ pc[w] = "index_492"
    /\ \/ /\ invocation' = [invocation EXCEPT ![w] = "raised"]
          /\ fallback_used' = fallback_used
          /\ pc' = [pc EXCEPT ![w] = "except_513"]
       \/ \E raw_listing \in Responses :
            /\ invocation' = [invocation EXCEPT ![w] = "ok"]
            /\ fallback_used' = [fallback_used EXCEPT
                    ![w] = validate_and_fix_listing(raw_listing)[2]]
            /\ pc' = [pc EXCEPT ![w] = "index_497"]
    /\ UNCHANGED <<val, db, uid, code, user, promo, result, started, began, before,
                   after, disturbed, initial, debits, refunds, granted>>

\* The commit of line 488 expired the row object: its next attribute access
\* (user.is_admin, user.credits, user.id) loads the committed row again.
index_497(w) ==
    /\ pc[w] = "index_497"
    /\ user' = [user EXCEPT ![w] = UserRow(uid[w])]
    /\ pc' = [pc EXCEPT ![w] = "index_509"]
    /\ UNCHANGED <<val, db, uid, code, promo, fallback_used, result, started, hist>>

GenerationStatus_completed(w) == "completed"

\* The status of the Generation row of a successful invocation.
GenerationStatus(w) == IF fallback_used[w] THEN "degraded" ELSE "completed"

\* if fallback_used and not user.is_admin
RefundDue_always(w) == ~is_admin[uid[w]]

RefundDue(w) == fallback_used[w] /\ ~is_admin[uid[w]]

\* user.credits += 1 when due; the Generation row; commit.
index_509(w) ==
    LET u == uid[w]
        refund == RefundDue(w)
        c == IF refund THEN user[w].credits + 1 ELSE credits[u]
    IN
    /\ pc[w] = "index_509"
    /\ refund => LockFree(w, u)
    /\ credits' = [credits EXCEPT ![u] = c]
    /\ generations' = Append(generations,
                             [user_id |-> u, status |-> GenerationStatus(w),
                              error |-> "None"])
    /\ refunds' = [refunds EXCEPT ![u] = @ + (IF refund THEN 1 ELSE 0)]
    /\ disturbed' = Disturb(w, u, c)
    /\ result' = [result EXCEPT ![w] = GenerationStatus(w)]
    /\ pc' = [pc EXCEPT ![w] = "finally_523"]
    /\ UNCHANGED <<val, is_generating, rowlock, promo_code, redemptions, uid, code, user,
                   promo, fallback_used, started, began, invocation, before, after,
                   initial, debits, granted>>

\* except: db.session.rollback(); user = User.query.get(current_user.id)
except_513(w) ==
    /\ pc[w] = "except_513"
    /\ rowlock' = Release(w)
    /\ user' = [user EXCEPT ![w] = UserRow(uid[w])]
    /\ pc' = [pc EXCEPT ![w] = "except_518"]
    /\ UNCHANGED <<val, credits, is_generating, promo_code, redemptions, generations,
                   uid, code, promo, fallback_used, result, started, hist>>

\* user.credits += 1 unless admin; commit; the answer is the error text.
except_518(w) ==
    LET u == uid[w]
        c == IF is_admin[u] THEN credits[u] ELSE user[w].credits + 1
    IN
    /\ pc[w] = "except_518"
    /\ ~is_admin[u] => LockFree(w, u)
    /\ credits' = [credits EXCEPT ![u] = c]
    /\ refunds' = [refunds EXCEPT ![u] = @ + (IF is_admin[u] THEN 0 ELSE 1)]
    /\ disturbed' = Disturb(w, u, c)
    /\ result' = [result EXCEPT ![w] = "Error generating listing. Please try again."]
    /\ pc' = [pc EXCEPT ![w] = "finally_523"]
    /\ UNCHANGED <<val, is_generating, rowlock, promo_code, redemptions, generations, uid,
                   code, user, promo, fallback_used, started, began, invocation,
                   before, after, initial, debits, granted>>

\* finally: user = User.query.get(current_user.id), expired by the last commit.
finally_523(w) ==
    /\ pc[w] = "finally_523"
    /\ user' = [user EXCEPT ![w] = UserRow(uid[w])]
    /\ pc' = [pc EXCEPT ![w] = "finally_525"]
    /\ UNCHANGED <<val, db, uid, code, promo, fallback_used, result, started, hist>>

finally_525_keeps_flag(w) ==
    /\ pc[w] = "finally_525"
    /\ after' = [after EXCEPT ![w] = credits[uid[w]]]
    /\ pc' = [pc EXCEPT ![w] = "teardown"]
    /\ UNCHANGED <<val, db, uid, code, user, promo, fallback_used, result, started, began,
                   invocation, before, disturbed, initial, debits, refunds, granted>>

\* user.is_generating = False; commit.  The flush writes only a changed value.
finally_525(w) ==
    LET u == uid[w] IN
    /\ pc[w] = "finally_525"
    /\ user[w].is_generating => LockFree(w, u)
    /\ is_generating' = [is_generating EXCEPT
                           ![u] = IF user[w].is_generating THEN FALSE ELSE @]
    /\ after' = [after EXCEPT ![w] = credits[u]]
    /\ pc' = [pc EXCEPT ![w] = "teardown"]
    /\ UNCHANGED <<val, credits, rowlock, promo_code, redemptions, generations, uid, code,
                   user, promo, fallback_used, result, started, began, invocation,
                   before, disturbed, initial, debits, refunds, granted>>

\* ------------------------------------------------ storage faults in index

\* db.session.commit() of line 488 raises: nothing of the begin step is
\* committed and control passes to the except block.
index_488_raises(w) ==
    /\ pc[w] = "index_485"
    /\ rowlock' = Release(w)
    /\ pc' = [pc EXCEPT ![w] = "except_513"]
    /\ UNCHANGED <<val, credits, is_generating, promo_code, redemptions, generations,
                   uid, code, user, promo, fallback_used, result, started, hist>>

\* db.session.commit() of line 509 raises: neither the Generation row nor the
\* refund of a fallback is committed and control passes to the except block.
index_509_raises(w) ==
    /\ pc[w] = "index_509"
    /\ pc' = [pc EXCEPT ![w] = "except_513"]
    /\ UNCHANGED <<val, db, uid, code, user, promo, fallback_used, result, started, hist>>

\* db.session.commit() of line 518 raises inside the except block: the refund
\* is not committed, the finally block still runs.
except_518_raises(w) ==
    /\ pc[w] = "except_518"
    /\ result' = [result EXCEPT ![w] = "Internal Server Error"]
    /\ pc' = [pc EXCEPT ![w] = "finally_523"]
    /\ UNCHANGED <<val, db, uid, code, user, promo, fallback_used, started, hist>>

\* ------------------------------------------------------------- redeem_code

\* if promo.max_uses and promo.uses_count >= promo.max_uses
LimitReached(p) == Truthy(p.max_uses) /\ p.uses_count >= p.max_uses[1]

\* The answer to the checks of lines 378-383 on the PromoCode row p.
PromoAnswer(p) ==
    IF ~p.present \/ ~p.is_active THEN "Invalid or inactive code."
    ELSE IF LimitReached(p) THEN "This code has reached its usage limit."
    ELSE "ok"

\* PromoCode.query.filter_by(code=code_input).first(): no row is None.
first(c) == IF c \in Codes THEN promo_code[c] ELSE NoPromo

\* promo = PromoCode.query.filter_by(code=code_input).first(), and the checks.
redeem_376(w) ==
    LET p == first(code[w]) IN
    /\ pc[w] = "redeem_376"
    /\ IF PromoAnswer(p) = "ok"
       THEN /\ promo' = [promo EXCEPT ![w] = p]
            /\ pc' = [pc EXCEPT ![w] = "redeem_386"]
            /\ result' = result
       ELSE /\ promo' = promo
            /\ pc' = [pc EXCEPT ![w] = "teardown"]
            /\ result' = [result EXCEPT ![w] = PromoAnswer(p)]
    /\ UNCHANGED <<val, db, uid, code, user, fallback_used, started, hist>>

\* existing = PromoRedemption.query.filter_by(user_id, promo_id).first()
Existing(u, c) == redemptions[u][c] > 0

redeem_386(w) ==
    /\ pc[w] = "redeem_386"
    /\ IF Existing(uid[w], code[w])
       THEN /\ pc' = [pc EXCEPT ![w] = "teardown"]
            /\ result' = [result EXCEPT ![w] = "You have already used this code."]
       ELSE /\ pc' = [pc EXCEPT ![w] = "redeem_395"]
            /\ result' = result
    /\ UNCHANGED <<val, db, uid, code, user, promo, fallback_used, started, hist>>

\* user = User.query.get(current_user.id) is the session's copy again;
\* user.credits += promo.credits; promo.uses_count += 1; the PromoRedemption
\* row; commit.
redeem_395(w) ==
    LET u == uid[w]
        c == user[w].credits + promo[w].credits
    IN
    /\ pc[w] = "redeem_395"
    /\ LockFree(w, u)
    /\ credits' = [credits EXCEPT ![u] = c]
    /\ promo_code' = [promo_code EXCEPT
                        ![code[w]].uses_count = promo[w].uses_count + 1]
    /\ redemptions' = [redemptions EXCEPT ![u][code[w]] = @ + 1]
    /\ granted' = [granted EXCEPT ![u] = @ + promo[w].credits]
    /\ disturbed' = Disturb(w, u, c)
    /\ result' = [result EXCEPT ![w] = "Promo applied!"]
    /\ pc' = [pc EXCEPT ![w] = "teardown"]
    /\ UNCHANGED <<val, is_generating, rowlock, generations, uid, code, user, promo,
                   fallback_used, started, began, invocation, before, after,
                   initial, debits, refunds>>

\* ------------------------------------------------------------ create_promo

\* An administrator stores a new code; max_uses is int(max_uses) when the
\* form field is not empty, None otherwise.  PromoCode.code is unique.
create_promo(c, cr, mu) ==
    /\ ~promo_code[c].present
    /\ promo_code' = [promo_code EXCEPT
                        ![c] = [present |-> TRUE, credits |-> cr, is_active |-> TRUE,
                                max_uses |-> mu, uses_count |-> 0]]
    /\ UNCHANGED <<val, credits, is_generating, rowlock, redemptions, generations,
                   local, hist>>

\* ------------------------------------------------------------ toggle_promo

\* An administrator flips is_active of a stored code.
toggle_promo(c) ==
    /\ promo_code[c].present
    /\ promo_code' = [promo_code EXCEPT ![c].is_active = ~@]
    /\ UNCHANGED <<val, credits, is_generating, rowlock, redemptions, generations,
                   local, hist>>

\* -------------------------------------------------------- specifications

Step(w) ==
    \/ teardown(w)
    \/ index_468(w)
    \/ index_485(w)
    \/ generate_listing(w)
    \/ index_497(w)
    \/ index_509(w)
    \/ except_513(w)
    \/ except_518(w)
    \/ finally_523(w)
    \/ finally_525(w)
    \/ redeem_376(w)
    \/ redeem_386(w)
    \/ redeem_395(w)

Fault(w) ==
    \/ index_488_raises(w)
    \/ index_509_raises(w)
    \/ except_518_raises(w)

\* The administrator's requests; create_promo normalizes the code it stores
\* as redeem_code normalizes the one it looks up.
Admin ==
    \/ \E form \in CodeForms, cr \in 1 .. MaxPromoCredits, mu \in MaxUsesValues :
        /\ upper(strip(form)) \in Codes
        /\ create_promo(upper(strip(form)), cr, mu)
    \/ \E c \in Codes : toggle_promo(c)

Next ==
    \/ \E w \in Workers : load_user(w)
    \/ \E w \in Workers : Step(w)
    \/ Admin

\* The storage is reliable: no commit raises.
Spec == Init /\ [][Next]_vars

NextFaults ==
    \/ Next
    \/ \E w \in Workers : Fault(w)

\* Commits of the guarded region may raise; a handler that has started is
\* run to its end by the server.
FaultSpec ==
    /\ Init
    /\ [][NextFaults]_vars
    /\ \A w \in Workers : WF_vars(Step(w))

\* validate_and_fix_listing applied to every text of the bounded set.
ValidatorInit ==
    /\ Installed
    /\ raw_output \in RawOutputs
    /\ validated = <<>>

ValidatorNext == validate

ValidatorSpec == ValidatorInit /\ [][ValidatorNext]_vars

\* ------------------------------------------------------------------ claims

AllIdle == \A w \in Workers : pc[w] = "idle"

\* A handler that has answered and not yet been torn down.
Answered(w) == pc[w] = "teardown"

\* C1: for every account at most one generation attempt is between its
\* committed begin step and its release.
C1_MutualExclusion ==
    \A u \in Users :
        Cardinality({w \in Workers : InAttempt(w) /\ uid[w] = u}) <= 1

HeldByOther(w) == \E x \in Workers : x # w /\ uid[x] = uid[w] /\ InAttempt(x)

C5_FailedRecord ==
    \A w \in Workers :
        (Answered(w) /\ invocation[w] = "raised") =>
            \E i \in 1 .. Len(generations) :
                /\ generations[i].user_id = uid[w]
                /\ generations[i].status = "failed"
                /\ generations[i].error # "None"

\* C6: at most one PromoRedemption row exists per (user, code).
C6_OncePerPair ==
    \A u \in Users, c \in Codes : redemptions[u][c] <= 1

\* C7: for a code with max_uses = N >= 1 at most N distinct accounts hold a
\* PromoRedemption row.
C7_GlobalCap ==
    \A c \in Codes :
        (promo_code[c].present /\ Truthy(promo_code[c].max_uses)) =>
            Cardinality({u \in Users : redemptions[u][c] > 0})
                <= promo_code[c].max_uses[1]

\* C8: uses_count <= max_uses for every code whose max_uses is set.
C8_CounterInvariant ==
    \A c \in Codes :
        (promo_code[c].present /\ promo_code[c].max_uses # None) =>
            promo_code[c].uses_count <= promo_code[c].max_uses[1]

\* The begin step of w answers.
BeginStep(w) == pc[w] = "index_468" /\ pc'[w] # "index_468"

C10_NoLostUpdate ==
    (AllIdle /\ C6_OncePerPair) =>
        \A u \in Users :
            ~is_admin[u] =>
                credits[u] = initial[u] - debits[u] + refunds[u] + granted[u]

\* The answers of the early returns of lines 470-482.
Rejections ==
    { "Generation already in progress.",
      "You have no credits remaining.",
      "Please upload at least one image.",
      "Maximum 5 images allowed." }

\* A generation request that was rejected and has not yet been torn down.
Rejected(w) == Answered(w) /\ result[w] \in Rejections

\* C11: a generation request rejected for the flag, for the balance or for
\* its images never began and never invoked the external service, and neither
\* the step that rejects it nor the end of the request changes credits or
\* is_generating of any account, also not a flag another attempt holds, or
\* adds a Generation row, a debit or a refund.
C11_RejectionNoEffect ==
    /\ [](\A w \in Workers :
            Rejected(w) => (~began[w] /\ invocation[w] = "none"))
    /\ [][\A w \in Workers :
            ((BeginStep(w) /\ Rejected(w)') \/ (Rejected(w) /\ pc'[w] # pc[w])) =>
                UNCHANGED <<credits, is_generating, generations, debits, refunds>>]_vars

\* A request rejected for the flag while the attempt of another handler on
\* the same account is under way and holds the flag.
C11_Witness ==
    \E w, x \in Workers :
        /\ Rejected(w) /\ result[w] = "Generation already in progress."
        /\ x # w /\ uid[x] = uid[w] /\ InAttempt(x)
        /\ is_generating[uid[w]]

\* Where a handler serving the generation route can be.
IndexSteps ==
    { "index_468", "index_485", "index_492", "index_497", "index_509",
      "except_513", "except_518", "finally_523", "finally_525" }

\* C12: for an exempt account no debit and no refund is ever counted; its
\* begin step is not rejected for the balance and, with the flag clear and
\* credits = 0, goes on to the debit-free begin commit unless the images are
\* rejected; and no step of a generation request of the account changes
\* credits, whether the attempt completes, is repaired or fails, also when a
\* commit raises.
C12_ExemptNeverBilled ==
    /\ [](\A u \in Users : is_admin[u] => (debits[u] = 0 /\ refunds[u] = 0))
    /\ [][\A w \in Workers :
            (BeginStep(w) /\ is_admin[uid[w]]) =>
                /\ result'[w] # "You have no credits remaining."
                /\ (user[w].credits = 0 /\ ~user[w].is_generating) =>
                        \/ pc'[w] = "index_485"
                        \/ result'[w] \in { "Please upload at least one image.",
                                            "Maximum 5 images allowed." }]_vars
    /\ [][\A w \in Workers :
            (is_admin[uid[w]] /\ pc[w] \in IndexSteps /\ pc'[w] # pc[w]) =>
                credits' = credits]_vars

\* An exempt account with credits = 0 whose attempt began, was repaired and
\* released with the balance still 0.
C12_Witness ==
    \E w \in Workers :
        /\ Answered(w) /\ began[w] /\ is_admin[uid[w]]
        /\ result[w] = "degraded"
        /\ before[w] = 0 /\ after[w] = 0 /\ credits[uid[w]] = 0

\* The handler w commits the Generation row of its successful invocation.
AuditStep(w) == pc[w] = "index_509" /\ pc'[w] = "finally_523"

\* C13: with reliable storage, the commit of line 509 appends one Generation
\* row of the account, with status degraded when the validator reported
\* fallback_used and completed otherwise, and counts one refund exactly when
\* the row is degraded and the account is not exempt; no other step appends a
\* row; and every handler whose invocation succeeded has made that commit
\* once it answers.
C13_AuditOnSuccess ==
    /\ [][\A w \in Workers :
            AuditStep(w) =>
                /\ generations' =
                       Append(generations,
                              [user_id |-> uid[w],
                               status |-> IF fallback_used[w] THEN "degraded"
                                                              ELSE "completed",
                               error |-> "None"])
                /\ refunds'[uid[w]] - refunds[uid[w]] =
                       IF fallback_used[w] /\ ~is_admin[uid[w]] THEN 1 ELSE 0
                /\ credits'[uid[w]] =
                       IF fallback_used[w] /\ ~is_admin[uid[w]]
                       THEN user[w].credits + 1 ELSE credits[uid[w]]]_vars
    /\ [][(\A w \in Workers : ~AuditStep(w)) => generations' = generations]_vars
    /\ [](\A w \in Workers :
            (invocation[w] = "ok"
                /\ pc[w] \in {"finally_523", "finally_525", "teardown"}) =>
                    /\ result[w] = IF fallback_used[w] THEN "degraded" ELSE "completed"
                    /\ \E i \in 1 .. Len(generations) :
                            /\ generations[i].user_id = uid[w]
                            /\ generations[i].status = result[w])

\* A repaired listing of a non-exempt account: one degraded row, one refund.
C13_Witness ==
    \E w \in Workers :
        /\ Answered(w) /\ invocation[w] = "ok" /\ fallback_used[w]
        /\ ~is_admin[uid[w]] /\ refunds[uid[w]] = 1
        /\ generations = <<[user_id |-> uid[w], status |-> "degraded",
                            error |-> "None"]>>

\* Where a handler serving the redeem route can be.
RedeemSteps == {"redeem_376", "redeem_386", "redeem_395"}

\* The step with which the redeem request of w answers.
RedeemAnswer(w) == pc[w] \in RedeemSteps /\ pc'[w] = "teardown"

\* No other request is under way and the copies the session of w holds are
\* the committed rows: the redeem request of w ran on its own.
Sequential(w) ==
    /\ \A x \in Workers : x # w => pc[x] = "idle"
    /\ user[w] = UserRow(uid[w])
    /\ pc[w] # "redeem_376" => promo[w] = first(code[w])

\* The conditions under which Redeem is stated to succeed.
Eligible(u, c) ==
    LET p == first(c) IN
    /\ p.present
    /\ p.is_active
    /\ (p.max_uses = None \/ p.uses_count < p.max_uses[1])
    /\ redemptions[u][c] = 0

\* C14: a redeem request that ran on its own answers "Promo applied!" exactly
\* when the normalized code is stored and active, max_uses is None or
\* uses_count < max_uses (0 included), and the account holds no redemption
\* row of the code; a success adds 1 to uses_count, one row and the code's
\* credits, a failure changes none of the three.
C14_SequentialRedeem ==
    [][\A w \in Workers :
        (RedeemAnswer(w) /\ Sequential(w)) =>
            LET u == uid[w]
                c == code[w]
            IN
            /\ (result'[w] = "Promo applied!") <=> Eligible(u, c)
            /\ (result'[w] = "Promo applied!") =>
                    /\ promo_code'[c].uses_count = promo_code[c].uses_count + 1
                    /\ redemptions'[u][c] = redemptions[u][c] + 1
                    /\ credits'[u] = credits[u] + promo_code[c].credits
            /\ (result'[w] # "Promo applied!") =>
                    UNCHANGED <<promo_code, redemptions, credits>>]_vars

\* The field of a label as the claim reads it: the label does not occur in
\* the text, or what follows its first occurrence up to the end of that line
\* is blank.
AbsentOrBlank(key, s) ==
    \/ Search(key, s) = 0
    \/ strip(DotStar(SubSeq(s, Search(key, s) + 1, Len(s)))) = <<>>

\* C15: for every text, validate_and_fix_listing returns fallback_used = TRUE
\* exactly when the text is empty, or Title is absent or the rest of its line
\* is blank, or Condition is absent or the rest of its line is blank; when
\* Title is absent or blank the listing starts with the placeholder title;
\* and for the empty text the listing is the fixed error message.
C15_ValidatorFlag ==
    validated # <<>> =>
        /\ validated[2] <=>
                \/ raw_output = <<>>
                \/ AbsentOrBlank("Title:", raw_output)
                \/ AbsentOrBlank("Condition:", raw_output)
        /\ (raw_output # <<>> /\ AbsentOrBlank("Title:", raw_output)) =>
                SubSeq(validated[1], 1, 3) = <<"Title:", " ", "Clothing Item">>
        /\ raw_output = <<>> =>
                validated[1] = <<"Error generating full listing.">>

\* C16: a handler at or past the external invocation has committed its begin
\* step, the flag and (for a non-exempt account) the debit together; and from
\* that commit until the handler's own release, which follows its refund and
\* its Generation row, is_generating of the account is true.
C16_HeldThroughout ==
    \A w \in Workers :
        /\ pc[w] \in (IndexSteps \ {"index_468", "index_485"}) => began[w]
        /\ (began[w] /\ ~is_admin[uid[w]]) => debits[uid[w]] >= 1
        /\ InAttempt(w) => is_generating[uid[w]]

\* The PromoRedemption rows of a code.
RECURSIVE Rows(_, _)
Rows(c, U) ==
    IF U = {} THEN 0
    ELSE LET u == CHOOSE x \in U : TRUE
         IN redemptions[u][c] + Rows(c, U \ {u})

\* C17: whenever no redeem request is under way, uses_count of every code is
\* the number of its PromoRedemption rows (stated for the behaviours in which
\* no pair has redeemed twice).
C17_CounterMatchesLedger ==
    ((\A w \in Workers : pc[w] \notin RedeemSteps) /\ C6_OncePerPair) =>
        \A c \in Codes : promo_code[c].uses_count = Rows(c, Users)

\* C18: for every non-exempt account the refunds that generation requests
\* committed never exceed the debits they committed, also when the commit of
\* the begin step raises.
C18_RefundsWithinDebits ==
    \A u \in Users : ~is_admin[u] => refunds[u] <= debits[u]
====
